---- MODULE Spec2Model ----
(***************************************************************************)
(* Model of ImageMatcherApp (AI_lab2.py): a PyQt window that shows a       *)
(* camera feed and overlays ORB keypoints / matches against a template.    *)
(* One action per Qt slot; the inputs of a slot (the file picked in the    *)
(* dialog, whether the camera opens, the frame the camera delivers and     *)
(* what ORB / BFMatcher return for it) are drawn from small sets.          *)
(***************************************************************************)
EXTENDS Integers, Sequences, FiniteSets

VARIABLES
    camera_on,         \* self.camera_on
    template_image,    \* self.template_image: None or the shape of the stored raster
    display_markers,   \* self.display_markers
    connect_markers,   \* self.connect_markers
    marker_checkbox,   \* checked state of the "Display Markers" box
    connect_checkbox,  \* checked state of the "Connect Markers" box
    timer_active,      \* self.timer.isActive()
    cap,               \* self.cap: "None", or a VideoCapture that is "opened" or "closed"
    leaked,            \* devices still held by VideoCapture objects self.cap no longer names
    video_label,       \* what self.video_label shows
    window,            \* "open", "closed" (closeEvent accepted) or "aborted"
    last,              \* the slot that ran last and the path it took
    decoded,           \* shape cv2.imread returned in the last load_template_image
    des2,              \* update_frame local: ORB found descriptors in the frame
    matches,           \* update_frame local: result of bf.match, as returned
    drawn              \* update_frame local: the list handed to cv2.drawMatches

vars == <<camera_on, template_image, display_markers, connect_markers,
          marker_checkbox, connect_checkbox, timer_active, cap, leaked,
          video_label, window, last, decoded, des2, matches, drawn>>

---------------------------------------------------------------------------
\* Bounds of the model

\* largest number of matches bf.match returns in one tick
MaxMatches == 22
\* distances of generated matches are (Stride * i + Offset) % Modulus
MaxStride == 2
MaxModulus == 5
\* most camera devices left open behind a re-bound self.cap
MaxLeaked == 2

---------------------------------------------------------------------------
\* Program constants

\* longest side a stored template may have (line 81, 82)
MaxTemplateSide == 450
\* number of best matches drawn (matches[:20], line 137)
MaxDrawn == 20
\* bits in the significand of a Python float (IEEE-754 binary64)
MantissaBits == 53

---------------------------------------------------------------------------
\* Values

\* a raster is described by its shape and by whether ORB finds descriptors in it
None == [height |-> 0, width |-> 0, features |-> FALSE]

Image(h, w, f) == [height |-> h, width |-> w, features |-> f]

\* What the user can pick in the file dialog: nothing (dialog cancelled, empty
\* path), a file OpenCV cannot decode, or an image file.
NoFile == [chosen |-> FALSE, image |-> None]
BadFile == [chosen |-> TRUE, image |-> None]

SampleImages ==
    { Image(200, 300, TRUE),     \* small, textured
      Image(64, 64, FALSE),      \* small, featureless
      Image(591, 591, TRUE),     \* square, larger than 450
      Image(600, 900, TRUE),     \* landscape, larger than 450
      Image(1000, 1, FALSE) }    \* one pixel wide

Files == {NoFile, BadFile} \cup { [chosen |-> TRUE, image |-> i] : i \in SampleImages }

Max(a, b) == IF a >= b THEN a ELSE b
Min(a, b) == IF a <= b THEN a ELSE b

---------------------------------------------------------------------------
\* int(side * (450 / longest)), lines 82-83, in Python float arithmetic.
\*
\* 450 / longest is the binary64 nearest to the quotient: with k such that
\* 2^-k <= 450/longest < 2^-(k-1) it is M / 2^e, e = MantissaBits - 1 + k,
\* M = (450 * 2^e - R) / longest + c, R = (450 * 2^e) % longest, and c = 1
\* when the quotient is rounded up (2R > longest; 2R = longest needs
\* 2^(e+2) to divide longest and does not happen).  side * M / 2^e is then
\* rounded to binary64 again and int() truncates it.  Writing
\* side * 450 = q * longest + s, the product is
\*     q + s/longest + side * (c * longest - R) / (longest * 2^e)
\* and the last term is below 2^-40, so the result is q unless s = 0 and
\* the term is negative by more than half a unit in the last place of the
\* floats just below q; then the product is a float below q and int() gives
\* q - 1.

RECURSIVE Pow2Mod(_, _)
Pow2Mod(e, m) == IF e = 0 THEN 1 % m ELSE (2 * Pow2Mod(e - 1, m)) % m

RECURSIVE Pow2(_)
Pow2(n) == IF n = 0 THEN 1 ELSE 2 * Pow2(n - 1)

RECURSIVE Log2Floor(_)
Log2Floor(q) == IF q < 2 THEN 0 ELSE 1 + Log2Floor(q \div 2)

\* k with 2^-k <= 450/longest < 2^-(k-1), for longest > 450
RECURSIVE ScaleExponent(_, _)
ScaleExponent(longest, k) ==
    IF longest <= MaxTemplateSide * Pow2(k) THEN k ELSE ScaleExponent(longest, k + 1)

ScaledSide(side, longest) ==
    LET k == ScaleExponent(longest, 1)
        e == MantissaBits - 1 + k
        R == (MaxTemplateSide * Pow2Mod(e, longest)) % longest
        roundedUp == 2 * R > longest
        q == (side * MaxTemplateSide) \div longest
        s == (side * MaxTemplateSide) % longest
        t == (side * R) \div longest
        j == Log2Floor(q)
        \* twice the half-ulp of the floats just below q, in units of 2^-e
        twiceHalfUlp == IF Pow2(j) = q THEN Pow2(k + j - 1) ELSE Pow2(k + j)
    IN  IF s > 0 \/ roundedUp \/ R = 0 \/ q = 0 THEN q
        ELSE IF 2 * t > twiceHalfUlp THEN q - 1 ELSE q

\* cv2.resize(src, (w, h)) raises cv2.error when the requested size is empty
ResizeRaises(w, h) == w <= 0 \/ h <= 0

---------------------------------------------------------------------------
\* sorted(matches, key=lambda x: x.distance), line 131: a stable sort

RECURSIVE InsertByDistance(_, _)
InsertByDistance(m, s) ==
    IF s = <<>> THEN <<m>>
    ELSE IF m.distance < Head(s).distance THEN <<m>> \o s
    ELSE <<Head(s)>> \o InsertByDistance(m, Tail(s))

RECURSIVE sorted(_)
sorted(ms) ==
    IF ms = <<>> THEN <<>>
    ELSE InsertByDistance(ms[Len(ms)], sorted(SubSeq(ms, 1, Len(ms) - 1)))

\* matches[:21]
BestMatchesOneMore(ms) == SubSeq(ms, 1, Min(MaxDrawn + 1, Len(ms)))

\* matches[:20], line 137
BestMatches(ms) == SubSeq(ms, 1, Min(MaxDrawn, Len(ms)))

\* The lists bf.match can return: n matches between distinct template and
\* frame keypoints, in query order, with distances in any order.
MatchList(n, stride, offset, modulus) ==
    [i \in 1..n |-> [queryIdx |-> i, trainIdx |-> n + 1 - i,
                     distance |-> (stride * i + offset) % modulus]]

MatchLists ==
    { MatchList(n, a, b, MaxModulus) : n \in 0..MaxMatches, a \in 0..MaxStride,
                                       b \in 0..1 }

---------------------------------------------------------------------------
Init ==
    /\ camera_on = FALSE
    /\ template_image = None
    /\ display_markers = TRUE
    /\ connect_markers = FALSE
    /\ marker_checkbox = TRUE
    /\ connect_checkbox = FALSE
    /\ timer_active = FALSE
    /\ cap = "None"
    /\ leaked = 0
    /\ video_label = "text"
    /\ window = "open"
    /\ last = "init"
    /\ decoded = None
    /\ des2 = FALSE
    /\ matches = <<>>
    /\ drawn = <<>>

\* the locals of update_frame do not outlive the call
NoFrameLocals == des2' = FALSE /\ matches' = <<>> /\ drawn' = <<>>

\* cv2.imread(file_path, cv2.IMREAD_GRAYSCALE): None when the file does not decode
imread(file) == file.image

\* Load Template Image clicked; file is what the dialog returns.  fatal tells
\* whether the Qt binding aborts the process on an exception escaping a slot.
load_template_image(file, fatal) ==
    /\ window = "open"
    /\ NoFrameLocals
    /\ UNCHANGED <<camera_on, display_markers, connect_markers, marker_checkbox,
                   connect_checkbox, timer_active, cap, leaked, video_label>>
    /\ IF ~file.chosen
       THEN /\ last' = "load_cancel"
            /\ UNCHANGED <<template_image, decoded, window>>
       ELSE LET img == imread(file)
                longest == Max(img.height, img.width)
                w == ScaledSide(img.width, longest)
                h == ScaledSide(img.height, longest)
            IN  /\ decoded' = img
                /\ IF img = None
                   THEN /\ template_image' = None
                        /\ last' = "load_fail"
                        /\ UNCHANGED window
                   ELSE IF longest > MaxTemplateSide
                   THEN IF ResizeRaises(w, h)
                        THEN /\ template_image' = img
                             /\ last' = "load_error"
                             /\ window' = IF fatal THEN "aborted" ELSE "open"
                        ELSE /\ template_image' = Image(h, w, img.features)
                             /\ last' = "load_ok"
                             /\ UNCHANGED window
                   ELSE /\ template_image' = img
                        /\ last' = "load_ok"
                        /\ UNCHANGED window

\* start_camera with the flag and the timer set before the isOpened() test
start_camera_before_check(opened, finalized) ==
    /\ window = "open"
    /\ (cap = "opened" /\ ~finalized) => leaked < MaxLeaked
    /\ NoFrameLocals
    /\ cap' = IF opened THEN "opened" ELSE "closed"
    /\ leaked' = IF cap = "opened" /\ ~finalized THEN leaked + 1 ELSE leaked
    /\ camera_on' = TRUE
    /\ timer_active' = opened
    /\ last' = IF opened THEN "start_ok" ELSE "start_fail"
    /\ UNCHANGED <<template_image, display_markers, connect_markers, marker_checkbox,
                   connect_checkbox, video_label, window, decoded>>

\* Start Camera clicked.  opened is what isOpened() says of the new
\* VideoCapture(0).  Binding it to self.cap drops the only reference to the
\* previous VideoCapture, which is never released by the program: whether its
\* device is closed then is up to the interpreter finalizing the object
\* (finalized) and is not something the language promises.
start_camera(opened, finalized) ==
    /\ window = "open"
    /\ (cap = "opened" /\ ~finalized) => leaked < MaxLeaked
    /\ NoFrameLocals
    /\ cap' = IF opened THEN "opened" ELSE "closed"
    /\ leaked' = IF cap = "opened" /\ ~finalized THEN leaked + 1 ELSE leaked
    /\ IF ~opened
       THEN /\ last' = "start_fail"
            /\ UNCHANGED <<camera_on, timer_active>>
       ELSE /\ camera_on' = TRUE
            /\ timer_active' = TRUE
            /\ last' = "start_ok"
    /\ UNCHANGED <<template_image, display_markers, connect_markers, marker_checkbox,
                   connect_checkbox, video_label, window, decoded>>

\* the interpreter finalizes a VideoCapture the program dropped
collect ==
    /\ window = "open"
    /\ leaked > 0
    /\ leaked' = leaked - 1
    /\ UNCHANGED <<camera_on, template_image, display_markers, connect_markers,
                   marker_checkbox, connect_checkbox, timer_active, cap, video_label,
                   window, last, decoded, des2, matches, drawn>>

\* the body of stop_camera, shared by the Stop Camera button and closeEvent
StopCameraBody ==
    /\ cap' = IF cap = "None" THEN "None" ELSE "closed"
    /\ camera_on' = FALSE
    /\ timer_active' = FALSE
    /\ video_label' = "empty"
    /\ UNCHANGED <<template_image, display_markers, connect_markers, marker_checkbox,
                   connect_checkbox, leaked, decoded>>

\* Stop Camera clicked
stop_camera ==
    /\ window = "open"
    /\ NoFrameLocals
    /\ StopCameraBody
    /\ last' = "stop"
    /\ UNCHANGED window

\* the Display Markers box changes state
toggle_markers ==
    /\ window = "open"
    /\ NoFrameLocals
    /\ marker_checkbox' = ~marker_checkbox
    /\ display_markers' = marker_checkbox'
    /\ last' = "toggle_markers"
    /\ UNCHANGED <<camera_on, template_image, connect_markers, connect_checkbox,
                   timer_active, cap, leaked, video_label, window, decoded>>

\* the Connect Markers box changes state
toggle_connect_markers ==
    /\ window = "open"
    /\ NoFrameLocals
    /\ connect_checkbox' = ~connect_checkbox
    /\ connect_markers' = connect_checkbox'
    /\ last' = "toggle_connect_markers"
    /\ UNCHANGED <<camera_on, template_image, display_markers, marker_checkbox,
                   timer_active, cap, leaked, video_label, window, decoded>>

\* RenderBranch with the display_markers test ahead of the connect_markers one
RenderBranchMarkersFirst(template, frame_des, connect, display) ==
    IF template # None
    THEN IF display THEN "keypoints"
         ELSE IF template.features /\ frame_des /\ connect THEN "matches"
         ELSE "frame"
    ELSE "frame"

\* RenderBranch drawing the frame's keypoints without asking for a template
RenderBranchNoTemplateTest(template, frame_des, connect, display) ==
    IF template # None /\ template.features /\ frame_des /\ connect THEN "matches"
    ELSE IF display THEN "keypoints"
    ELSE "frame"

\* What update_frame puts on the label for a frame it read (lines 120-158):
\* des1 and frame_des tell whether ORB returned descriptors for the template
\* and for the frame.
RenderBranch(template, frame_des, connect, display) ==
    IF template # None
    THEN IF template.features /\ frame_des /\ connect THEN "matches"
         ELSE IF display THEN "keypoints"
         ELSE "frame"
    ELSE "frame"

\* update_frame treating a failed read like a lost camera: it clears the label
update_frame_clear_on_failure(ret, frame_des, bf_matches) ==
    /\ window = "open"
    /\ timer_active
    /\ UNCHANGED <<camera_on, template_image, display_markers, connect_markers,
                   marker_checkbox, connect_checkbox, timer_active, cap, leaked,
                   window, decoded>>
    /\ IF cap = "opened"
       THEN IF ~ret
            THEN /\ last' = "tick_no_frame"
                 /\ NoFrameLocals
                 /\ video_label' = "empty"
            ELSE LET matched == template_image # None /\ template_image.features /\ frame_des
                     ms == IF matched THEN sorted(bf_matches) ELSE <<>>
                     branch == RenderBranch(template_image, frame_des,
                                            connect_markers, display_markers)
                 IN  /\ last' = "tick_frame"
                     /\ des2' = (template_image # None /\ frame_des)
                     /\ matches' = IF matched THEN bf_matches ELSE <<>>
                     /\ drawn' = IF branch = "matches" THEN BestMatches(ms) ELSE <<>>
                     /\ video_label' = branch
       ELSE /\ last' = "tick_no_capture"
            /\ NoFrameLocals
            /\ UNCHANGED video_label

\* The timer fires.  ret is whether cap.read() delivered a frame, frame_des
\* whether ORB finds descriptors in it, bf_matches what bf.match returns when
\* both images have descriptors.
update_frame(ret, frame_des, bf_matches) ==
    /\ window = "open"
    /\ timer_active
    /\ UNCHANGED <<camera_on, template_image, display_markers, connect_markers,
                   marker_checkbox, connect_checkbox, timer_active, cap, leaked,
                   window, decoded>>
    /\ IF cap = "opened"
       THEN IF ~ret
            THEN /\ last' = "tick_no_frame"
                 /\ NoFrameLocals
                 /\ UNCHANGED video_label
            ELSE LET matched == template_image # None /\ template_image.features /\ frame_des
                     ms == IF matched THEN sorted(bf_matches) ELSE <<>>
                     branch == RenderBranch(template_image, frame_des,
                                            connect_markers, display_markers)
                 IN  /\ last' = "tick_frame"
                     /\ des2' = (template_image # None /\ frame_des)
                     /\ matches' = IF matched THEN bf_matches ELSE <<>>
                     /\ drawn' = IF branch = "matches" THEN BestMatches(ms) ELSE <<>>
                     /\ video_label' = branch
       ELSE /\ last' = "tick_no_capture"
            /\ NoFrameLocals
            /\ UNCHANGED video_label

\* the window is closed: stop_camera(), then the event is accepted
closeEvent ==
    /\ window = "open"
    /\ NoFrameLocals
    /\ StopCameraBody
    /\ last' = "close"
    /\ window' = "closed"

Next ==
    \/ \E file \in Files, fatal \in BOOLEAN : load_template_image(file, fatal)
    \/ \E opened \in BOOLEAN, finalized \in BOOLEAN : start_camera(opened, finalized)
    \/ collect
    \/ stop_camera
    \/ toggle_markers
    \/ toggle_connect_markers
    \/ \E ret \in BOOLEAN, frame_des \in BOOLEAN, bf_matches \in MatchLists :
          update_frame(ret, frame_des, bf_matches)
    \/ closeEvent

Spec == Init /\ [][Next]_vars

---------------------------------------------------------------------------
\* Properties

Longest(img) == Max(img.height, img.width)
Shortest(img) == Min(img.height, img.width)
Shown == {"frame", "keypoints", "matches"}
Range(f) == { f[i] : i \in DOMAIN f }

\* C1: a load whose file fails to decode leaves template_image as it was.
C1_FailedLoadKeepsTemplate ==
    [][last' = "load_fail" => template_image' = template_image]_vars

\* C2 as stated: a tick that read a frame with connect_markers on and a
\* template loaded always shows the match composite.
C2_ConnectAlwaysComposite ==
    (last = "tick_frame" /\ connect_markers /\ template_image # None)
        => video_label = "matches"

\* C2 amended: a tick that read a frame with connect_markers on and a template
\* loaded shows the match composite, whatever display_markers is, when ORB
\* returned descriptors for both the template and the frame; when either has
\* none it shows the keypoints (display_markers on) or the raw frame (off).
C2_ConnectCompositeWhenDescriptors ==
    (last = "tick_frame" /\ connect_markers /\ template_image # None)
        => video_label = IF template_image.features /\ des2 THEN "matches"
                         ELSE IF display_markers THEN "keypoints"
                         ELSE "frame"

C2_Witness ==
    /\ last = "tick_frame"
    /\ connect_markers /\ display_markers
    /\ template_image.features /\ des2
    /\ video_label = "matches"

\* C3: after a start_camera whose camera does not open, camera_on is False
\* and the timer is not running.
C3_FailedStartInactive ==
    last = "start_fail" => (~camera_on /\ ~timer_active)

C5_StopIdempotent ==
    [][(last' = "stop" /\ cap # "opened")
          => UNCHANGED <<camera_on, timer_active, template_image,
                         display_markers, connect_markers>>]_vars

\* C6: a decoded image with longer side above 450 is stored with longer side
\* exactly 450 and the shorter side scaled by the same factor within rounding
\* and at least 1; every stored template has longer side at most 450.
C6_StoredTemplateScaled ==
    /\ Longest(template_image) <= MaxTemplateSide
    /\ (last \in {"load_ok", "load_error"} /\ Longest(decoded) > MaxTemplateSide)
          => /\ Longest(template_image) = MaxTemplateSide
             /\ Shortest(template_image) >= 1
             /\ Shortest(template_image) * Longest(decoded)
                   \in (Shortest(decoded) * MaxTemplateSide - Longest(decoded))
                       .. (Shortest(decoded) * MaxTemplateSide + Longest(decoded))

\* C7: with no template loaded, a tick that read a frame shows the raw frame,
\* whatever the two flags are.
C7_NoTemplateRawFrame ==
    (last = "tick_frame" /\ template_image = None)
        => (video_label = "frame" /\ drawn = <<>>)

C7_Witness ==
    /\ last = "tick_frame"
    /\ template_image = None
    /\ display_markers /\ connect_markers
    /\ video_label = "frame"

\* C8: a tick whose read fails changes nothing: label, template, flags,
\* camera_on and capture stay as they were, and the timer keeps running on an
\* open capture, so the next tick can read again.
C8_FailedReadSkipsTick ==
    [][last' = "tick_no_frame"
          => /\ UNCHANGED <<video_label, template_image, display_markers,
                            connect_markers, camera_on, cap, timer_active>>
             /\ timer_active' /\ cap' = "opened"]_vars

C8_Witness ==
    /\ last = "tick_no_frame"
    /\ video_label \in Shown
    /\ template_image # None

\* C9: the matches drawn are min(20, n) of the n matches, in non-decreasing
\* distance, and no match left out is closer than one drawn.
C9_BestMatchesDrawn ==
    (last = "tick_frame" /\ video_label = "matches")
        => /\ Len(drawn) = Min(MaxDrawn, Len(matches))
           /\ Len(drawn) <= MaxDrawn
           /\ \A i \in DOMAIN drawn : drawn[i] \in Range(matches)
           /\ \A i, j \in DOMAIN drawn :
                 i < j => (drawn[i] # drawn[j] /\ drawn[i].distance <= drawn[j].distance)
           /\ \A m \in Range(matches) \ Range(drawn) :
                 \A i \in DOMAIN drawn : drawn[i].distance <= m.distance

C9_Witness ==
    /\ last = "tick_frame"
    /\ video_label = "matches"
    /\ Len(matches) > MaxDrawn
    /\ Len(drawn) = MaxDrawn
    /\ \E i \in 1..(Len(matches) - 1) : matches[i].distance > matches[i + 1].distance

\* C10: the timer runs exactly when camera_on is set; the label is written
\* only by a tick with the timer running and the capture open, or cleared by
\* stop_camera; and once cleared with the camera off it stays cleared, the
\* camera coming on again only through a start_camera that succeeds.
C10_TimerIffCameraOn ==
    /\ [](timer_active <=> camera_on)
    /\ [][video_label' # video_label
            => \/ last' = "tick_frame" /\ timer_active /\ cap = "opened"
               \/ last' \in {"stop", "close"} /\ video_label' = "empty"]_vars
    /\ [][(video_label = "empty" /\ ~camera_on) => video_label' = "empty"]_vars
    /\ [][(~camera_on /\ camera_on') => last' = "start_ok"]_vars

C10_Witness ==
    /\ last = "start_fail"
    /\ video_label = "empty"
    /\ ~camera_on /\ ~timer_active
    /\ cap = "closed"

====
